---- MODULE Spec2Model ----
(***************************************************************************)
(* Gift management server: the inventory and request-approval engine.      *)
(*                                                                         *)
(* The persisted dataset is one JSON document (DATA_FILE).  Every route    *)
(* handler reads the whole document (readData), validates and mutates its  *)
(* private copy synchronously, and writes the whole document back          *)
(* (writeData).  The two awaits are the only points where another handler  *)
(* can run.                                                                *)
(*                                                                         *)
(* Abstractions: free-text fields that no handler branches on (purpose,    *)
(* transaction reason, names, passwords) and the wall-clock values of      *)
(* createdAt / lastUpdated are not part of the state; approvedAt keeps     *)
(* only "unset" versus "set".  JavaScript null is the integer Null for     *)
(* number-valued fields and the string NullStr for string-valued fields.   *)
(***************************************************************************)
EXTENDS Integers, Sequences, FiniteSets, TLC

VARIABLES
  DATA_FILE,   \* the data file: whether it exists, whether its bytes are an
               \* incomplete document (torn), and the document it holds
  resp,        \* the last answer sent: the call answered and its HTTP status
  inflight,    \* the handlers suspended in writeData, by connection:
               \* the call, the copy of the dataset being written, and
               \* whether writeFile has opened the file (fd)
  served       \* number of calls the server has accepted

vars == <<DATA_FILE, resp, inflight, served>>

----------------------------------------------------------------------------
(* Bounds of the exploration *)

MaxCalls == 3
NumProcs == 2

----------------------------------------------------------------------------
(* JavaScript null *)

Null == -1000
NullStr == "null"
Now == 1

Truthy(v) == v # Null /\ v # 0

\* The number a value is in arithmetic and in comparisons: null counts as 0.
ToNumber(v) == IF v = Null THEN 0 ELSE v

----------------------------------------------------------------------------
(* Seed dataset *)

getInitialData ==
  [ users |-> << [id |-> 1, username |-> "emp001", employeeId |-> "E001", storeId |-> 1, role |-> "employee", status |-> "active"],
                 [id |-> 2, username |-> "emp002", employeeId |-> "E002", storeId |-> 1, role |-> "employee", status |-> "active"],
                 [id |-> 3, username |-> "manager", employeeId |-> "M001", storeId |-> 1, role |-> "manager", status |-> "active"] >>,
    stores |-> << [id |-> 1, status |-> "active"] >>,
    gifts |-> << [id |-> 1, giftCode |-> "G001", status |-> "active"],
                 [id |-> 2, giftCode |-> "G002", status |-> "active"],
                 [id |-> 3, giftCode |-> "G003", status |-> "active"],
                 [id |-> 4, giftCode |-> "G004", status |-> "active"],
                 [id |-> 5, giftCode |-> "G005", status |-> "active"] >>,
    giftInventory |-> << [id |-> 1, userId |-> 1, giftId |-> 1, quantity |-> 5],
                         [id |-> 2, userId |-> 1, giftId |-> 2, quantity |-> 10],
                         [id |-> 3, userId |-> 1, giftId |-> 3, quantity |-> 8],
                         [id |-> 4, userId |-> 2, giftId |-> 1, quantity |-> 3],
                         [id |-> 5, userId |-> 2, giftId |-> 4, quantity |-> 6],
                         [id |-> 6, userId |-> 2, giftId |-> 5, quantity |-> 4] >>,
    giftRequests |-> << [id |-> 1, requesterId |-> 1, giftId |-> 2, requestType |-> "increase",
                         requestedQuantity |-> 5, approvedQuantity |-> Null, targetUserId |-> Null,
                         status |-> "pending", approverId |-> Null, rejectionReason |-> NullStr,
                         approvedAt |-> Null],
                        [id |-> 2, requesterId |-> 2, giftId |-> 1, requestType |-> "transfer",
                         requestedQuantity |-> 2, approvedQuantity |-> Null, targetUserId |-> 1,
                         status |-> "pending", approverId |-> Null, rejectionReason |-> NullStr,
                         approvedAt |-> Null] >>,
    giftTransactions |-> << >>,
    nextIds |-> [users |-> 4, stores |-> 2, gifts |-> 6, giftInventory |-> 7,
                 giftRequests |-> 3, giftTransactions |-> 1] ]

----------------------------------------------------------------------------
(* Persistence *)

\* Mutant of readData: the seed, whatever the file holds.
readData_AlwaysSeed(f) == getInitialData

\* readData: the parsed file, or the seed when the file cannot be read or
\* its bytes do not parse (the catch covers readFile and JSON.parse alike).
readData(f) == IF f.exists /\ ~f.torn THEN f.content ELSE getInitialData

\* writeData: the file holds the whole document afterwards.
writeData(d) == [exists |-> TRUE, torn |-> FALSE, content |-> d]

\* writeFile opens the file with flag 'w': the file is truncated, and until
\* the last byte of the document is written it holds a proper prefix of it.
openForWrite(d) == [exists |-> TRUE, torn |-> TRUE, content |-> d]

----------------------------------------------------------------------------
(* Array helpers *)

\* Array.prototype.findIndex over inventory records; -1 when absent,
\* otherwise the (1-based) position of the first match.
findInvIndex(inv, userId, giftId) ==
  LET hits == {i \in 1..Len(inv) : inv[i].userId = userId /\ inv[i].giftId = giftId}
  IN IF hits = {} THEN -1 ELSE CHOOSE i \in hits : \A j \in hits : i <= j

\* Array.prototype.find over requests by id; 0 when absent.
findRequestIndex(reqs, requestId) ==
  LET hits == {i \in 1..Len(reqs) : reqs[i].id = requestId}
  IN IF hits = {} THEN 0 ELSE CHOOSE i \in hits : \A j \in hits : i <= j

\* users.find(u => u.id === id && u.status === 'active')
findActiveUser(users, id) ==
  \E i \in 1..Len(users) : users[i].id = id /\ users[i].status = "active"

\* One giftTransactions entry.
Transaction(id, userId, giftId, type, quantity, referenceUserId, createdBy) ==
  [id |-> id, userId |-> userId, giftId |-> giftId, transactionType |-> type,
   quantity |-> quantity, referenceUserId |-> referenceUserId, createdBy |-> createdBy]

\* data.giftTransactions.push({id: data.nextIds.giftTransactions++, ...})
pushTransaction(d, userId, giftId, type, quantity, referenceUserId, createdBy) ==
  [d EXCEPT !.giftTransactions =
              Append(@, Transaction(d.nextIds.giftTransactions, userId, giftId, type,
                                    quantity, referenceUserId, createdBy)),
            !.nextIds.giftTransactions = @ + 1]

\* data.giftInventory.push({id: data.nextIds.giftInventory++, ...})
pushInventory(d, userId, giftId, quantity) ==
  [d EXCEPT !.giftInventory =
              Append(@, [id |-> d.nextIds.giftInventory, userId |-> userId,
                         giftId |-> giftId, quantity |-> quantity]),
            !.nextIds.giftInventory = @ + 1]

\* Array.prototype.findIndex over records by id; 0 when absent.
findIndexById(s, id) ==
  LET hits == {i \in 1..Len(s) : s[i].id = id}
  IN IF hits = {} THEN 0 ELSE CHOOSE i \in hits : \A j \in hits : i <= j

\* Array.prototype.splice(index, 1)
splice1(s, index) == [i \in 1..(Len(s) - 1) |-> IF i < index THEN s[i] ELSE s[i + 1]]

\* Outcome of a handler: the handler's copy of the dataset, whether it
\* reached writeData, and the HTTP status it answers with.
Replied(d, code) == [data |-> d, write |-> FALSE, status |-> code]
Written(d) == [data |-> d, write |-> TRUE, status |-> 200]

----------------------------------------------------------------------------
(* POST /api/inventory/send *)

\* Mutant of sendHandler: the quantity of the record is not compared with
\* the quantity sent.
sendHandler_Unchecked(d, user, giftId, quantity) ==
  LET invIndex == findInvIndex(d.giftInventory, user, giftId)
  IN IF invIndex = -1
     THEN Replied(d, 400)
     ELSE Written(pushTransaction(
                    [d EXCEPT !.giftInventory[invIndex].quantity = @ - quantity],
                    user, giftId, "send", -quantity, Null, user))

sendHandler(d, user, giftId, quantity) ==
  LET invIndex == findInvIndex(d.giftInventory, user, giftId)
  IN IF invIndex = -1 \/ d.giftInventory[invIndex].quantity < quantity
     THEN Replied(d, 400)
     ELSE Written(pushTransaction(
                    [d EXCEPT !.giftInventory[invIndex].quantity = @ - quantity],
                    user, giftId, "send", -quantity, Null, user))

----------------------------------------------------------------------------
(* PUT /api/inventory/:userId/:giftId  (manual adjust, manager) *)

\* Mutant of adjustHandler: the ledger entry carries the new quantity
\* instead of the difference to the old one.
adjustHandler_NoDelta(d, actor, userId, giftId, quantity) ==
  LET invIndex == findInvIndex(d.giftInventory, userId, giftId)
      d1 == IF invIndex # -1
            THEN [d EXCEPT !.giftInventory[invIndex].quantity = quantity]
            ELSE pushInventory(d, userId, giftId, quantity)
  IN Written(pushTransaction(d1, userId, giftId, "adjust", quantity, Null, actor))

\* Mutant of adjustHandler: a record is pushed without looking for an
\* existing one.
adjustHandler_AlwaysPush(d, actor, userId, giftId, quantity) ==
  LET invIndex == findInvIndex(d.giftInventory, userId, giftId)
      oldQuantity == IF invIndex # -1 THEN d.giftInventory[invIndex].quantity ELSE 0
  IN Written(pushTransaction(pushInventory(d, userId, giftId, quantity),
                             userId, giftId, "adjust", quantity - oldQuantity,
                             Null, actor))

adjustHandler(d, actor, userId, giftId, quantity) ==
  LET invIndex == findInvIndex(d.giftInventory, userId, giftId)
      oldQuantity == IF invIndex # -1 THEN d.giftInventory[invIndex].quantity ELSE 0
      d1 == IF invIndex # -1
            THEN [d EXCEPT !.giftInventory[invIndex].quantity = quantity]
            ELSE pushInventory(d, userId, giftId, quantity)
  IN Written(pushTransaction(d1, userId, giftId, "adjust", quantity - oldQuantity,
                             Null, actor))

----------------------------------------------------------------------------
(* DELETE /api/inventory/:userId/:giftId  (remove record, manager) *)

\* Mutant of removeHandler: the ledger entry carries the quantity of the
\* record, not its negation.
removeHandler_PositiveEntry(d, actor, userId, giftId) ==
  LET invIndex == findInvIndex(d.giftInventory, userId, giftId)
  IN IF invIndex = -1
     THEN Replied(d, 404)
     ELSE LET inventory == d.giftInventory[invIndex]
              d1 == pushTransaction(d, userId, giftId, "delete", inventory.quantity,
                                    Null, actor)
          IN Written([d1 EXCEPT !.giftInventory = splice1(@, invIndex)])

\* The deletedInventory of the success answer: the record found.
deletedInventory(d, userId, giftId) ==
  d.giftInventory[findInvIndex(d.giftInventory, userId, giftId)]

removeHandler(d, actor, userId, giftId) ==
  LET invIndex == findInvIndex(d.giftInventory, userId, giftId)
  IN IF invIndex = -1
     THEN Replied(d, 404)
     ELSE LET inventory == d.giftInventory[invIndex]
              d1 == pushTransaction(d, userId, giftId, "delete", -inventory.quantity,
                                    Null, actor)
          IN Written([d1 EXCEPT !.giftInventory = splice1(@, invIndex)])

----------------------------------------------------------------------------
(* POST /api/requests  (submit) *)

\* The two failures of the handler, by the message of the 400 answer:
\* "target user does not exist" and "not enough inventory to transfer".
NoError == "none"
TargetUserNotFound == "TargetUserNotFound"
InsufficientInventory == "InsufficientInventory"

\* The transfer pre-flight: runs only when requestType is transfer and the
\* supplied targetUserId is truthy; the target is looked up first, the
\* requester's inventory second.
submitError(d, user, giftId, requestType, requestedQuantity, targetUserId) ==
  IF requestType = "transfer" /\ Truthy(targetUserId)
  THEN IF ~findActiveUser(d.users, targetUserId)
       THEN TargetUserNotFound
       ELSE LET invIndex == findInvIndex(d.giftInventory, user, giftId)
            IN IF \/ invIndex = -1
                  \/ ToNumber(d.giftInventory[invIndex].quantity)
                       < ToNumber(requestedQuantity)
               THEN InsufficientInventory
               ELSE NoError
  ELSE NoError

submitRejects(d, user, giftId, requestType, requestedQuantity, targetUserId) ==
  submitError(d, user, giftId, requestType, requestedQuantity, targetUserId) # NoError

newRequest(d, user, giftId, requestType, requestedQuantity, targetUserId) ==
  [id |-> d.nextIds.giftRequests, requesterId |-> user, giftId |-> giftId,
   requestType |-> requestType, requestedQuantity |-> requestedQuantity,
   approvedQuantity |-> Null,
   targetUserId |-> IF Truthy(targetUserId) THEN targetUserId ELSE Null,
   status |-> "pending", approverId |-> Null, rejectionReason |-> NullStr,
   approvedAt |-> Null]

submitHandler(d, user, giftId, requestType, requestedQuantity, targetUserId) ==
  IF submitRejects(d, user, giftId, requestType, requestedQuantity, targetUserId)
  THEN Replied(d, 400)
  ELSE Written([d EXCEPT
                  !.giftRequests = Append(@, newRequest(d, user, giftId, requestType,
                                                        requestedQuantity, targetUserId)),
                  !.nextIds.giftRequests = @ + 1])

----------------------------------------------------------------------------
(* PUT /api/requests/:id/approve  (manager) *)

\* const finalQuantity = approvedQuantity || request.requestedQuantity
finalQuantityOf(approvedQuantity, request) ==
  IF Truthy(approvedQuantity) THEN approvedQuantity ELSE request.requestedQuantity

\* Mutant of isPendingRequest: the status comparison is dropped, so a decided
\* request is handled as if it were pending.
isPendingRequest_ExistsOnly(d, requestId) ==
  findRequestIndex(d.giftRequests, requestId) # 0

\* The guard shared by approve and reject: the request exists and is pending.
isPendingRequest(d, requestId) ==
  LET r == findRequestIndex(d.giftRequests, requestId)
  IN r # 0 /\ d.giftRequests[r].status = "pending"

\* request.status = 'approved'; approverId, approvedQuantity, approvedAt
markApproved(d, r, actor, finalQuantity) ==
  [d EXCEPT !.giftRequests[r].status = "approved",
            !.giftRequests[r].approverId = actor,
            !.giftRequests[r].approvedQuantity = finalQuantity,
            !.giftRequests[r].approvedAt = Now]

\* Mutant of creditInventory: an existing record is assigned the quantity
\* (=) instead of being increased by it (+=).
creditInventory_Overwrite(d, userId, giftId, finalQuantity) ==
  LET invIndex == findInvIndex(d.giftInventory, userId, giftId)
  IN IF invIndex # -1
     THEN [d EXCEPT !.giftInventory[invIndex].quantity = finalQuantity]
     ELSE pushInventory(d, userId, giftId, finalQuantity)

\* Credit of finalQuantity to (userId, giftId): add to the record, or push one.
creditInventory(d, userId, giftId, finalQuantity) ==
  LET invIndex == findInvIndex(d.giftInventory, userId, giftId)
  IN IF invIndex # -1
     THEN [d EXCEPT !.giftInventory[invIndex].quantity =
                      ToNumber(@) + ToNumber(finalQuantity)]
     ELSE pushInventory(d, userId, giftId, finalQuantity)

\* Debit of the requester in the transfer branch: applied only when the
\* record exists, with no comparison against its quantity.
debitRequester(d, userId, giftId, finalQuantity) ==
  LET fromInvIndex == findInvIndex(d.giftInventory, userId, giftId)
  IN IF fromInvIndex # -1
     THEN [d EXCEPT !.giftInventory[fromInvIndex].quantity =
                      ToNumber(@) - ToNumber(finalQuantity)]
     ELSE d

approveIncrease(d, request, actor, finalQuantity) ==
  pushTransaction(creditInventory(d, request.requesterId, request.giftId, finalQuantity),
                  request.requesterId, request.giftId, "receive", finalQuantity,
                  Null, actor)

approveTransfer(d, request, actor, finalQuantity) ==
  LET d1 == debitRequester(d, request.requesterId, request.giftId, finalQuantity)
      d2 == creditInventory(d1, request.targetUserId, request.giftId, finalQuantity)
      d3 == pushTransaction(d2, request.requesterId, request.giftId, "transfer",
                            -ToNumber(finalQuantity), request.targetUserId, actor)
  IN pushTransaction(d3, request.targetUserId, request.giftId, "receive",
                     finalQuantity, request.requesterId, actor)

approveHandler(d, actor, requestId, approvedQuantity) ==
  IF ~isPendingRequest(d, requestId)
  THEN Replied(d, 404)
  ELSE LET r == findRequestIndex(d.giftRequests, requestId)
           request == d.giftRequests[r]
           finalQuantity == finalQuantityOf(approvedQuantity, request)
           d1 == markApproved(d, r, actor, finalQuantity)
       IN Written(CASE request.requestType = "increase" ->
                         approveIncrease(d1, request, actor, finalQuantity)
                    [] request.requestType = "transfer" ->
                         approveTransfer(d1, request, actor, finalQuantity)
                    [] OTHER -> d1)

----------------------------------------------------------------------------
(* PUT /api/requests/:id/reject  (manager) *)

\* Mutant of rejectHandler: the rejection reason is not recorded.
rejectHandler_NoReason(d, actor, requestId, reason) ==
  IF ~isPendingRequest(d, requestId)
  THEN Replied(d, 404)
  ELSE LET r == findRequestIndex(d.giftRequests, requestId)
       IN Written([d EXCEPT !.giftRequests[r].status = "rejected",
                            !.giftRequests[r].approverId = actor,
                            !.giftRequests[r].approvedAt = Now])

rejectHandler(d, actor, requestId, reason) ==
  IF ~isPendingRequest(d, requestId)
  THEN Replied(d, 404)
  ELSE LET r == findRequestIndex(d.giftRequests, requestId)
       IN Written([d EXCEPT !.giftRequests[r].status = "rejected",
                            !.giftRequests[r].approverId = actor,
                            !.giftRequests[r].rejectionReason = reason,
                            !.giftRequests[r].approvedAt = Now])

----------------------------------------------------------------------------
(* GET /api/inventory/my  (read-only) *)

\* The handler answers with a projection of the dataset it read.
inventoryMyHandler(d, user) == Replied(d, 200)

----------------------------------------------------------------------------
(* DELETE /api/users/:id  (manager) *)

\* The user is spliced out; the inventory records and the ledger entries of
\* the user and the requests the user submitted are filtered out.
\* Mutant of deleteUserHandler: the ledger entries of the user are kept.
deleteUserHandler_KeepLedger(d, actor, userId) ==
  LET userIndex == findIndexById(d.users, userId)
  IN IF userId = actor
     THEN Replied(d, 400)
     ELSE IF userIndex = 0
     THEN Replied(d, 404)
     ELSE Written([d EXCEPT
            !.users = splice1(@, userIndex),
            !.giftInventory = SelectSeq(@, LAMBDA inv : inv.userId # userId),
            !.giftRequests = SelectSeq(@, LAMBDA req : req.requesterId # userId)])

deleteUserHandler(d, actor, userId) ==
  LET userIndex == findIndexById(d.users, userId)
  IN IF userId = actor
     THEN Replied(d, 400)
     ELSE IF userIndex = 0
     THEN Replied(d, 404)
     ELSE Written([d EXCEPT
            !.users = splice1(@, userIndex),
            !.giftInventory = SelectSeq(@, LAMBDA inv : inv.userId # userId),
            !.giftRequests = SelectSeq(@, LAMBDA req : req.requesterId # userId),
            !.giftTransactions = SelectSeq(@, LAMBDA trans : trans.userId # userId)])

----------------------------------------------------------------------------
(* DELETE /api/gifts/:id  (manager) *)

\* The gift is spliced out; the inventory records and the requests of the
\* gift are filtered out.  The ledger is not touched.
\* Mutant of deleteGiftHandler: the requests of the gift are kept.
deleteGiftHandler_KeepRequests(d, giftId) ==
  LET giftIndex == findIndexById(d.gifts, giftId)
  IN IF giftIndex = 0
     THEN Replied(d, 404)
     ELSE Written([d EXCEPT
            !.gifts = splice1(@, giftIndex),
            !.giftInventory = SelectSeq(@, LAMBDA inv : inv.giftId # giftId)])

\* The counts of the success answer: the lengths before the filter minus
\* the lengths after it.
removedInventoryCount(d, giftId) ==
  Len(d.giftInventory) - Len(SelectSeq(d.giftInventory, LAMBDA inv : inv.giftId # giftId))
removedRequestsCount(d, giftId) ==
  Len(d.giftRequests) - Len(SelectSeq(d.giftRequests, LAMBDA req : req.giftId # giftId))

deleteGiftHandler(d, giftId) ==
  LET giftIndex == findIndexById(d.gifts, giftId)
  IN IF giftIndex = 0
     THEN Replied(d, 404)
     ELSE Written([d EXCEPT
            !.gifts = splice1(@, giftIndex),
            !.giftInventory = SelectSeq(@, LAMBDA inv : inv.giftId # giftId),
            !.giftRequests = SelectSeq(@, LAMBDA req : req.giftId # giftId)])

----------------------------------------------------------------------------
(* User and gift administration  (manager) *)

\* Truthiness of a string-valued field: absent (or null) and '' are falsy.
TruthyStr(s) == s # NullStr /\ s # ""

\* data.users.find(u => u.username === username && u.id !== userId)
usernameTaken(users, username, userId) ==
  \E i \in 1..Len(users) : users[i].username = username /\ users[i].id # userId

\* data.users.find(u => u.employeeId === employeeId && u.id !== userId)
employeeIdTaken(users, employeeId, userId) ==
  \E i \in 1..Len(users) : users[i].employeeId = employeeId /\ users[i].id # userId

\* data.gifts.find(g => g.giftCode === giftCode && g.id !== giftId)
giftCodeTaken(gifts, giftCode, giftId) ==
  \E i \in 1..Len(gifts) : gifts[i].giftCode = giftCode /\ gifts[i].id # giftId

\* POST /api/users.  The two lookups compare with every user (no id is
\* excluded); the body's storeId is store 1 and a password is supplied.
\* Mutant of createUserHandler: the employee id is not looked up.
createUserHandler_NoEmployeeCheck(d, username, employeeId, role) ==
  IF usernameTaken(d.users, username, Null)
  THEN Replied(d, 400)
  ELSE Written([d EXCEPT
         !.users = Append(@, [id |-> d.nextIds.users, username |-> username,
                              employeeId |-> employeeId, storeId |-> 1,
                              role |-> role, status |-> "active"]),
         !.nextIds.users = @ + 1])

createUserHandler(d, username, employeeId, role) ==
  IF usernameTaken(d.users, username, Null)
  THEN Replied(d, 400)
  ELSE IF employeeIdTaken(d.users, employeeId, Null)
  THEN Replied(d, 400)
  ELSE Written([d EXCEPT
         !.users = Append(@, [id |-> d.nextIds.users, username |-> username,
                              employeeId |-> employeeId, storeId |-> 1,
                              role |-> role, status |-> "active"]),
         !.nextIds.users = @ + 1])

\* PUT /api/users/:id.  A field of the body that is falsy is neither
\* checked nor changed.
updateUserHandler(d, userId, username, employeeId, role, status) ==
  LET userIndex == findIndexById(d.users, userId)
  IN IF userIndex = 0
     THEN Replied(d, 404)
     ELSE IF TruthyStr(username) /\ usernameTaken(d.users, username, userId)
     THEN Replied(d, 400)
     ELSE IF TruthyStr(employeeId) /\ employeeIdTaken(d.users, employeeId, userId)
     THEN Replied(d, 400)
     ELSE Written([d EXCEPT
            !.users[userIndex].username = IF TruthyStr(username) THEN username ELSE @,
            !.users[userIndex].employeeId = IF TruthyStr(employeeId) THEN employeeId ELSE @,
            !.users[userIndex].role = IF TruthyStr(role) THEN role ELSE @,
            !.users[userIndex].status = IF TruthyStr(status) THEN status ELSE @])

\* PATCH /api/users/:id/status
\* Mutant of setStatusHandler: the acting user's own id is not refused.
setStatusHandler_NoSelfCheck(d, actor, userId, status) ==
  LET userIndex == findIndexById(d.users, userId)
  IN IF userIndex = 0
     THEN Replied(d, 404)
     ELSE Written([d EXCEPT !.users[userIndex].status = status])

setStatusHandler(d, actor, userId, status) ==
  LET userIndex == findIndexById(d.users, userId)
  IN IF userId = actor
     THEN Replied(d, 400)
     ELSE IF userIndex = 0
     THEN Replied(d, 404)
     ELSE Written([d EXCEPT !.users[userIndex].status = status])

\* POST /api/gifts, from readData on (a body without giftCode, giftName or
\* category is answered 400 before readData; see CreateGift).
\* Mutant of createGiftHandler: the gift code is not looked up.
createGiftHandler_NoCodeCheck(d, giftCode, status) ==
  Written([d EXCEPT
    !.gifts = Append(@, [id |-> d.nextIds.gifts, giftCode |-> giftCode,
                         status |-> status]),
    !.nextIds.gifts = @ + 1])

createGiftHandler(d, giftCode, status) ==
  IF giftCodeTaken(d.gifts, giftCode, Null)
  THEN Replied(d, 400)
  ELSE Written([d EXCEPT
         !.gifts = Append(@, [id |-> d.nextIds.gifts, giftCode |-> giftCode,
                              status |-> status]),
         !.nextIds.gifts = @ + 1])

\* PUT /api/gifts/:id.  The code is looked up when the body's giftCode is
\* truthy and differs from the gift's own; an absent status is not written.
updateGiftHandler(d, giftId, giftCode, status) ==
  LET giftIndex == findIndexById(d.gifts, giftId)
  IN IF giftIndex = 0
     THEN Replied(d, 404)
     ELSE IF /\ TruthyStr(giftCode)
             /\ giftCode # d.gifts[giftIndex].giftCode
             /\ giftCodeTaken(d.gifts, giftCode, giftId)
     THEN Replied(d, 400)
     ELSE Written([d EXCEPT
            !.gifts[giftIndex].giftCode = IF TruthyStr(giftCode) THEN giftCode ELSE @,
            !.gifts[giftIndex].status = IF status # NullStr THEN status ELSE @])

----------------------------------------------------------------------------
(* Calls the API layer can deliver.  A call names the route and carries    *)
(* req.user.id (actor) and the route's parameters; unused ones are null.   *)

Employees == {1, 2}
Managers == {3}
SendQuantities == {-1, 0, 2, 4}
AdjustQuantities == {-1, 0, 1}
ApprovedQuantities == {Null, -1, 1, 4}
RequestIds == {1, 2, 3, 9}
TargetUserIds == {Null, 1, 2, 9}
RequestedQuantities == {2}
AnyRequestedQuantities == {Null, -1, 0, 2, 4}
SubmitGiftIds == {1, 2}
DeletableUserIds == {1, 2, 3, 9}
DeletableGiftIds == {1, 2, 9}

Call(op, actor, userId, giftId, quantity, requestId, requestType, targetUserId, reason) ==
  [op |-> op, actor |-> actor, userId |-> userId, giftId |-> giftId,
   quantity |-> quantity, requestId |-> requestId, requestType |-> requestType,
   targetUserId |-> targetUserId, reason |-> reason]

SendCalls ==
  {Call("send", u, u, 1, q, Null, NullStr, Null, NullStr) :
     u \in Employees, q \in SendQuantities}
AdjustCalls ==
  {Call("adjust", m, u, 1, q, Null, NullStr, Null, NullStr) :
     m \in Managers, u \in Employees, q \in AdjustQuantities}
RemoveCalls ==
  {Call("remove", m, u, g, Null, Null, NullStr, Null, NullStr) :
     m \in Managers, u \in Employees, g \in {1, 2}}
SubmitCalls ==
  {Call("submit", 2, 2, 1, q, Null, t, tu, NullStr) :
     q \in RequestedQuantities, t \in {"increase", "transfer"}, tu \in TargetUserIds}
ApproveCalls ==
  {Call("approve", m, Null, Null, q, r, NullStr, Null, NullStr) :
     m \in Managers, q \in ApprovedQuantities, r \in RequestIds}
RejectCalls ==
  {Call("reject", m, Null, Null, Null, r, NullStr, Null, "reason") :
     m \in Managers, r \in RequestIds}

AnySubmitCalls ==
  {Call("submit", 2, 2, g, q, Null, t, tu, NullStr) :
     g \in SubmitGiftIds, q \in AnyRequestedQuantities,
     t \in {"increase", "transfer"}, tu \in TargetUserIds}
DeleteUserCalls ==
  {Call("deleteUser", m, u, Null, Null, Null, NullStr, Null, NullStr) :
     m \in Managers, u \in DeletableUserIds}
DeleteGiftCalls ==
  {Call("deleteGift", m, Null, g, Null, Null, NullStr, Null, NullStr) :
     m \in Managers, g \in DeletableGiftIds}

InventoryMyCalls ==
  {Call("inventoryMy", u, u, Null, Null, Null, NullStr, Null, NullStr) :
     u \in Employees}

\* A call of the administration routes: the route's parameters and the
\* fields of the body the handlers branch on; absent ones are null.
AdminCall(op, actor, userId, giftId, username, employeeId, giftCode, role, status) ==
  [op |-> op, actor |-> actor, userId |-> userId, giftId |-> giftId,
   username |-> username, employeeId |-> employeeId, giftCode |-> giftCode,
   role |-> role, status |-> status]

Usernames == {NullStr, "emp001", "newuser"}
EmployeeIds == {NullStr, "E001", "N001"}
GiftCodes == {NullStr, "G001", "G002", "G100"}
UpdatableUserIds == {2, 4, 9}
UpdatableGiftIds == {1, 6, 9}
StatusUserIds == {1, 3, 9}

CreateUserCalls ==
  {AdminCall("createUser", m, Null, Null, n, e, NullStr, "employee", NullStr) :
     m \in Managers, n \in Usernames, e \in EmployeeIds}
UpdateUserCalls ==
  {AdminCall("updateUser", m, u, Null, n, e, NullStr, NullStr, st) :
     m \in Managers, u \in UpdatableUserIds, n \in Usernames, e \in EmployeeIds,
     st \in {NullStr, "inactive"}}
SetStatusCalls ==
  {AdminCall("setStatus", m, u, Null, NullStr, NullStr, NullStr, NullStr, st) :
     m \in Managers, u \in StatusUserIds, st \in {"active", "inactive"}}
CreateGiftCalls ==
  {AdminCall("createGift", m, Null, Null, NullStr, NullStr, g, NullStr, "active") :
     m \in Managers, g \in GiftCodes}
UpdateGiftCalls ==
  {AdminCall("updateGift", m, Null, g, NullStr, NullStr, code, NullStr, st) :
     m \in Managers, g \in UpdatableGiftIds, code \in GiftCodes,
     st \in {NullStr, "inactive"}}

\* Route dispatch.
Handle(d, c) ==
  CASE c.op = "send" -> sendHandler(d, c.actor, c.giftId, c.quantity)
    [] c.op = "adjust" -> adjustHandler(d, c.actor, c.userId, c.giftId, c.quantity)
    [] c.op = "remove" -> removeHandler(d, c.actor, c.userId, c.giftId)
    [] c.op = "submit" -> submitHandler(d, c.actor, c.giftId, c.requestType,
                                        c.quantity, c.targetUserId)
    [] c.op = "approve" -> approveHandler(d, c.actor, c.requestId, c.quantity)
    [] c.op = "reject" -> rejectHandler(d, c.actor, c.requestId, c.reason)
    [] c.op = "deleteUser" -> deleteUserHandler(d, c.actor, c.userId)
    [] c.op = "deleteGift" -> deleteGiftHandler(d, c.giftId)
    [] c.op = "inventoryMy" -> inventoryMyHandler(d, c.actor)
    [] c.op = "createUser" -> createUserHandler(d, c.username, c.employeeId, c.role)
    [] c.op = "updateUser" -> updateUserHandler(d, c.userId, c.username, c.employeeId,
                                                c.role, c.status)
    [] c.op = "setStatus" -> setStatusHandler(d, c.actor, c.userId, c.status)
    [] c.op = "createGift" -> createGiftHandler(d, c.giftCode, c.status)
    [] c.op = "updateGift" -> updateGiftHandler(d, c.giftId, c.giftCode, c.status)

NoCall == Call("none", Null, Null, Null, Null, Null, NullStr, Null, NullStr)
Procs == 1..NumProcs
Busy(p) == p \in DOMAIN inflight

\* The server has just started: no handler has run, so the data file may
\* not exist yet (the first readData creates it from the seed).
Init ==
  /\ DATA_FILE = [exists |-> FALSE, torn |-> FALSE, content |-> getInitialData]
  /\ resp = [call |-> NoCall, status |-> 0]
  /\ inflight = << >>
  /\ served = 0

----------------------------------------------------------------------------
(* One handler at a time: readData, the synchronous body and writeData of  *)
(* a call run with no other call in between.                               *)

Serve(c) ==
  LET r == Handle(readData(DATA_FILE), c)
  IN /\ served < MaxCalls
     /\ served' = served + 1
     /\ DATA_FILE' = writeData(r.data)
     /\ resp' = [call |-> c, status |-> r.status]
     /\ UNCHANGED inflight

Send == \E c \in SendCalls : Serve(c)
ManualAdjust == \E c \in AdjustCalls : Serve(c)
RemoveRecord == \E c \in RemoveCalls : Serve(c)
Submit == \E c \in SubmitCalls : Serve(c)
Approve == \E c \in ApproveCalls : Serve(c)
Reject == \E c \in RejectCalls : Serve(c)

Next == Send \/ ManualAdjust \/ RemoveRecord \/ Submit \/ Approve \/ Reject

Spec == Init /\ [][Next]_vars

----------------------------------------------------------------------------
(* One handler at a time: the request life cycle, with every body the      *)
(* submit handler accepts (requestedQuantity absent, zero or negative; a   *)
(* gift the requester holds or does not hold).                             *)

SubmitAny == \E c \in AnySubmitCalls : Serve(c)

NextRequests == SubmitAny \/ Approve \/ Reject

SpecRequests == Init /\ [][NextRequests]_vars

----------------------------------------------------------------------------
(* One handler at a time, with the manager's cascade deletes. *)

DeleteUser == \E c \in DeleteUserCalls : Serve(c)
DeleteGift == \E c \in DeleteGiftCalls : Serve(c)

NextAdmin ==
  Send \/ ManualAdjust \/ RemoveRecord \/ Submit \/ Approve \/ Reject
    \/ DeleteUser \/ DeleteGift

SpecAdmin == Init /\ [][NextAdmin]_vars

----------------------------------------------------------------------------
(* Concurrent calls.  A handler runs from the resolution of its readData   *)
(* to its call of writeData without yielding (Begin); the file is replaced *)
(* by the handler's copy when its writeFile lands (Complete).  A handler   *)
(* that returns before writeData answers in Begin.                         *)

Begin(p, c) ==
  LET d == readData(DATA_FILE)
      r == Handle(d, c)
  IN /\ ~Busy(p)
     /\ served < MaxCalls
     /\ served' = served + 1
     /\ DATA_FILE' = writeData(d)
     /\ IF r.write
        THEN /\ inflight' = [q \in DOMAIN inflight \cup {p} |->
                               IF q = p THEN [call |-> c, data |-> r.data, fd |-> FALSE]
                                        ELSE inflight[q]]
             /\ UNCHANGED resp
        ELSE /\ resp' = [call |-> c, status |-> r.status]
             /\ UNCHANGED inflight

Complete(p) ==
  /\ Busy(p)
  /\ DATA_FILE' = writeData(inflight[p].data)
  /\ resp' = [call |-> inflight[p].call, status |-> 200]
  /\ inflight' = [q \in DOMAIN inflight \ {p} |-> inflight[q]]
  /\ UNCHANGED served

BeginSend == \E p \in Procs, c \in SendCalls : Begin(p, c)
BeginManualAdjust == \E p \in Procs, c \in AdjustCalls : Begin(p, c)
BeginRemoveRecord == \E p \in Procs, c \in RemoveCalls : Begin(p, c)
BeginSubmit == \E p \in Procs, c \in SubmitCalls : Begin(p, c)
BeginApprove == \E p \in Procs, c \in ApproveCalls : Begin(p, c)
BeginReject == \E p \in Procs, c \in RejectCalls : Begin(p, c)
Finish == \E p \in Procs : Complete(p)

NextConc ==
  BeginSend \/ BeginManualAdjust \/ BeginRemoveRecord \/ BeginSubmit
    \/ BeginApprove \/ BeginReject \/ Finish

SpecConc == Init /\ [][NextConc]_vars

----------------------------------------------------------------------------
(* The file write in two steps, and the end of the process.  writeFile     *)
(* opens the file, which truncates it (OpenFile), and the document is      *)
(* complete in the file when the write has finished and the file is closed *)
(* (CloseFile).  On SIGINT or SIGTERM the process exits at once, whatever  *)
(* handlers are suspended (Exit); the process manager starts it again.     *)

OpenFile(p) ==
  /\ Busy(p)
  /\ ~inflight[p].fd
  /\ DATA_FILE' = openForWrite(inflight[p].data)
  /\ inflight' = [inflight EXCEPT ![p].fd = TRUE]
  /\ UNCHANGED <<resp, served>>

\* The file stays incomplete while another writeFile has it open.
CloseFile(p) ==
  /\ Busy(p)
  /\ inflight[p].fd
  /\ DATA_FILE' = IF \E q \in DOMAIN inflight \ {p} : inflight[q].fd
                  THEN openForWrite(inflight[p].data)
                  ELSE writeData(inflight[p].data)
  /\ resp' = [call |-> inflight[p].call, status |-> 200]
  /\ inflight' = [q \in DOMAIN inflight \ {p} |-> inflight[q]]
  /\ UNCHANGED served

Exit ==
  /\ inflight # << >>
  /\ inflight' = << >>
  /\ resp' = [call |-> NoCall, status |-> 0]
  /\ UNCHANGED <<DATA_FILE, served>>

BeginInventoryMy == \E p \in Procs, c \in InventoryMyCalls : Begin(p, c)
WriteOpen == \E p \in Procs : OpenFile(p)
WriteClose == \E p \in Procs : CloseFile(p)

NextFile ==
  BeginSend \/ BeginManualAdjust \/ BeginInventoryMy \/ WriteOpen \/ WriteClose \/ Exit

SpecFile == Init /\ [][NextFile]_vars

----------------------------------------------------------------------------
(* A save that fails.  writeFile rejects, writeData rethrows, and the      *)
(* handler's catch answers 500.  A rejection raised by the open leaves the *)
(* file as it was; one raised after the open (the device is full, the      *)
(* write fails) leaves the truncated, partly written file behind, as       *)
(* nothing restores the previous content.                                  *)

SaveFailed(p) ==
  /\ Busy(p)
  /\ \/ UNCHANGED DATA_FILE
     \/ /\ ~inflight[p].fd
        /\ DATA_FILE' = openForWrite(inflight[p].data)
  /\ resp' = [call |-> inflight[p].call, status |-> 500]
  /\ inflight' = [q \in DOMAIN inflight \ {p} |-> inflight[q]]
  /\ UNCHANGED served

WriteFails == \E p \in Procs : SaveFailed(p)

NextFault == BeginSend \/ BeginManualAdjust \/ WriteOpen \/ WriteClose \/ WriteFails

SpecFault == Init /\ [][NextFault]_vars

----------------------------------------------------------------------------
(* One handler at a time: the administration of users. *)

CreateUser == \E c \in CreateUserCalls : Serve(c)
UpdateUser == \E c \in UpdateUserCalls : Serve(c)
SetStatus == \E c \in SetStatusCalls : Serve(c)

NextUsers == CreateUser \/ UpdateUser \/ SetStatus \/ DeleteUser

SpecUsers == Init /\ [][NextUsers]_vars

----------------------------------------------------------------------------
(* One handler at a time: the administration of gifts, and a route that    *)
(* only reads.  POST /api/gifts answers a body without giftCode before it  *)
(* reads the dataset, so that call does not touch the data file.           *)

CreateGift ==
  \E c \in CreateGiftCalls :
    IF TruthyStr(c.giftCode)
    THEN Serve(c)
    ELSE /\ served < MaxCalls
         /\ served' = served + 1
         /\ resp' = [call |-> c, status |-> 400]
         /\ UNCHANGED <<DATA_FILE, inflight>>

UpdateGift == \E c \in UpdateGiftCalls : Serve(c)
InventoryMy == \E c \in InventoryMyCalls : Serve(c)

NextGifts == CreateGift \/ UpdateGift \/ DeleteGift \/ InventoryMy

SpecGifts == Init /\ [][NextGifts]_vars

----------------------------------------------------------------------------
(* Observations used by the properties *)

\* The dataset a handler starting now would read.
Data == readData(DATA_FILE)

HasRecord(d, userId, giftId) == findInvIndex(d.giftInventory, userId, giftId) # -1

\* Balance of a (holder, gift) pair: the record's quantity, 0 without record.
Qty(d, userId, giftId) ==
  LET i == findInvIndex(d.giftInventory, userId, giftId)
  IN IF i = -1 THEN 0 ELSE d.giftInventory[i].quantity

RECURSIVE LedgerSumUpTo(_, _, _, _)
LedgerSumUpTo(txs, userId, giftId, n) ==
  IF n = 0 THEN 0
  ELSE LedgerSumUpTo(txs, userId, giftId, n - 1)
       + (IF txs[n].userId = userId /\ txs[n].giftId = giftId THEN txs[n].quantity ELSE 0)

\* Sum of the signed quantities of the pair's ledger entries.
LedgerSum(d, userId, giftId) ==
  LedgerSumUpTo(d.giftTransactions, userId, giftId, Len(d.giftTransactions))

HasRequest(d, requestId) == findRequestIndex(d.giftRequests, requestId) # 0
RequestOf(d, requestId) == d.giftRequests[findRequestIndex(d.giftRequests, requestId)]
Decided(status) == status \in {"approved", "rejected"}

\* The step answers call kind `op` (a call was accepted and answered).
Answered(op) == served' = served + 1 /\ resp'.call.op = op

\* The inventory records of every pair other than (userId, giftId).
OtherRecords(d, userId, giftId) ==
  {d.giftInventory[i] : i \in {j \in 1..Len(d.giftInventory) :
      ~(d.giftInventory[j].userId = userId /\ d.giftInventory[j].giftId = giftId)}}

\* The (holder, gift) pairs that have an inventory record in d.
Pairs(d) == {<<d.giftInventory[i].userId, d.giftInventory[i].giftId>> :
               i \in 1..Len(d.giftInventory)}

----------------------------------------------------------------------------
(* C1..C10 *)

\* C1: in every reachable state the quantity of every inventory record
\* is >= 0.
C1_QuantityNonNegative ==
  \A i \in 1..Len(Data.giftInventory) : Data.giftInventory[i].quantity >= 0

\* C2: once the dataset is persisted, the quantity of every inventory
\* record equals the sum of the signed quantities of the ledger entries of
\* its (holder, gift) pair.
C2_QuantityIsLedgerSum ==
  DATA_FILE.exists =>
    \A i \in 1..Len(Data.giftInventory) :
      LET inv == Data.giftInventory[i]
      IN inv.quantity = LedgerSum(Data, inv.userId, inv.giftId)

\* C3: a successful approve of a transfer request for quantity n either
\* moves n from the requester's balance to the target's balance or changes
\* neither balance; with no inventory record of the requester the target is
\* not credited.
C3_TransferBothOrNeither ==
  [][ (/\ Answered("approve")
       /\ resp'.status = 200
       /\ RequestOf(Data, resp'.call.requestId).requestType = "transfer")
      => LET req == RequestOf(Data', resp'.call.requestId)
             n == req.approvedQuantity
             from == req.requesterId
             to == req.targetUserId
             g == req.giftId
         IN /\ \/ /\ Qty(Data', from, g) = Qty(Data, from, g) - n
                  /\ Qty(Data', to, g) = Qty(Data, to, g) + n
               \/ /\ Qty(Data', from, g) = Qty(Data, from, g)
                  /\ Qty(Data', to, g) = Qty(Data, to, g)
            /\ ~HasRecord(Data, from, g) => Qty(Data', to, g) = Qty(Data, to, g)
    ]_vars

\* C4: under any interleaving of concurrent calls, a request whose
\* persisted status is approved or rejected keeps that status in every
\* later persisted dataset that holds the request.
C4_DecidedStatusIsFinal ==
  [][ \A i \in 1..Len(Data.giftRequests) :
        LET req == Data.giftRequests[i]
        IN (Decided(req.status) /\ HasRequest(Data', req.id))
           => RequestOf(Data', req.id).status = req.status
    ]_vars

\* C5: approve or reject of a request that is already approved or rejected
\* fails and leaves the whole dataset (the request, every inventory record,
\* the ledger, the id counters) unchanged.
C5_DecidedRequestIsNotTouched ==
  [][ (/\ Answered("approve") \/ Answered("reject")
       /\ HasRequest(Data, resp'.call.requestId)
       /\ Decided(RequestOf(Data, resp'.call.requestId).status))
      => (resp'.status = 404 /\ Data' = Data)
    ]_vars

\* C5 witness: an approve of a request that was already approved has been
\* answered with a failure.
C5_Witness ==
  /\ resp.call.op = "approve"
  /\ resp.status = 404
  /\ HasRequest(Data, resp.call.requestId)
  /\ RequestOf(Data, resp.call.requestId).status = "approved"

\* C6: every write that lands persists the result of its call applied to
\* the dataset persisted immediately before it, so the persisted dataset is
\* the result of the calls run one after another in the order of their
\* writes and no answered call's effect is overwritten.
C6_WritesAreSerial ==
  [][ \A p \in Procs :
        (Busy(p) /\ ~Busy(p)')
        => DATA_FILE'.content = Handle(Data, inflight[p].call).data
    ]_vars

\* C7: while only send calls of positive amounts run, a send of n that
\* reports success found at least n in the persisted balance it debits, and
\* the persisted balance drops by exactly n.
C7_SendDebitsCheckedBalance ==
  [][ \A p \in Procs :
        (/\ Busy(p) /\ ~Busy(p)'
         /\ inflight[p].call.op = "send"
         /\ inflight[p].call.quantity > 0
         /\ \A q \in DOMAIN inflight :
              inflight[q].call.op = "send" /\ inflight[q].call.quantity > 0
         /\ \A i \in 1..Len(Data.giftTransactions) :
              /\ Data.giftTransactions[i].transactionType = "send"
              /\ Data.giftTransactions[i].quantity < 0)
        => LET c == inflight[p].call
           IN /\ Qty(Data, c.actor, c.giftId) >= c.quantity
              /\ Qty(Data', c.actor, c.giftId) = Qty(Data, c.actor, c.giftId) - c.quantity
    ]_vars

\* C8: a successful approve of a pending transfer request between two
\* distinct holders with final quantity n takes n from the requester's
\* balance, adds n to the target's balance, appends exactly two ledger
\* entries (-n on the requester naming the target, +n on the target naming
\* the requester) and marks the request approved.
C8_TransferApproved ==
  [][ (/\ Answered("approve")
       /\ resp'.status = 200
       /\ RequestOf(Data, resp'.call.requestId).requestType = "transfer"
       /\ RequestOf(Data, resp'.call.requestId).targetUserId # Null
       /\ RequestOf(Data, resp'.call.requestId).targetUserId
            # RequestOf(Data, resp'.call.requestId).requesterId)
      => LET req == RequestOf(Data', resp'.call.requestId)
             n == req.approvedQuantity
             from == req.requesterId
             to == req.targetUserId
             g == req.giftId
             old == Data.giftTransactions
             new == Data'.giftTransactions
         IN /\ req.status = "approved"
            /\ Qty(Data', from, g) = Qty(Data, from, g) - n
            /\ Qty(Data', to, g) = Qty(Data, to, g) + n
            /\ HasRecord(Data', to, g)
            /\ Len(new) = Len(old) + 2
            /\ SubSeq(new, 1, Len(old)) = old
            /\ new[Len(old) + 1].userId = from /\ new[Len(old) + 1].giftId = g
            /\ new[Len(old) + 1].quantity = -n
            /\ new[Len(old) + 1].referenceUserId = to
            /\ new[Len(old) + 2].userId = to /\ new[Len(old) + 2].giftId = g
            /\ new[Len(old) + 2].quantity = n
            /\ new[Len(old) + 2].referenceUserId = from
    ]_vars

\* C9: a successful approve of a pending increase request with final
\* quantity n adds exactly n to the requester's balance for the gift
\* (creating the record with quantity n when there is none), appends exactly
\* one ledger entry, of kind receive and signed quantity +n for the
\* requester, and leaves every other pair's inventory record unchanged.
C9_IncreaseApproved ==
  [][ (/\ Answered("approve")
       /\ resp'.status = 200
       /\ RequestOf(Data, resp'.call.requestId).requestType = "increase")
      => LET req == RequestOf(Data', resp'.call.requestId)
             n == req.approvedQuantity
             u == req.requesterId
             g == req.giftId
             old == Data.giftTransactions
             new == Data'.giftTransactions
         IN /\ HasRecord(Data', u, g)
            /\ Qty(Data', u, g) = Qty(Data, u, g) + n
            /\ ~HasRecord(Data, u, g) => Qty(Data', u, g) = n
            /\ Len(new) = Len(old) + 1
            /\ SubSeq(new, 1, Len(old)) = old
            /\ new[Len(new)].userId = u /\ new[Len(new)].giftId = g
            /\ new[Len(new)].transactionType = "receive"
            /\ new[Len(new)].quantity = n
            /\ OtherRecords(Data', u, g) = OtherRecords(Data, u, g)
    ]_vars

\* C9 witness: an increase request was approved for a requester who had no
\* inventory record for the gift; the record now exists, freshly created,
\* with the approved quantity, and the ledger ends with the receive entry.
C9_Witness ==
  /\ resp.call.op = "approve"
  /\ resp.status = 200
  /\ HasRequest(Data, resp.call.requestId)
  /\ LET req == RequestOf(Data, resp.call.requestId)
         i == findInvIndex(Data.giftInventory, req.requesterId, req.giftId)
         txs == Data.giftTransactions
     IN /\ req.requestType = "increase"
        /\ req.status = "approved"
        /\ i # -1
        /\ Data.giftInventory[i].id >= getInitialData.nextIds.giftInventory
        /\ Data.giftInventory[i].quantity = req.approvedQuantity
        /\ Len(txs) > 0
        /\ txs[Len(txs)].transactionType = "receive"
        /\ txs[Len(txs)].quantity = req.approvedQuantity

\* C10: an approve of a pending transfer request whose requester holds
\* less than the final quantity fails: the request stays pending and the
\* dataset is unchanged.
C10_ApproveRechecksBalance ==
  [][ (/\ Answered("approve")
       /\ HasRequest(Data, resp'.call.requestId)
       /\ LET req == RequestOf(Data, resp'.call.requestId)
          IN /\ req.status = "pending"
             /\ req.requestType = "transfer"
             /\ Qty(Data, req.requesterId, req.giftId)
                  < finalQuantityOf(resp'.call.quantity, req))
      => (resp'.status # 200 /\ Data' = Data)
    ]_vars

----------------------------------------------------------------------------
(* C11..C20 *)

\* C11: the ledger is append-only: in every step of every operation,
\* deleting a user or a gift included, the ledger after the step starts with
\* the whole ledger from before the step, entry for entry.
C11_LedgerAppendOnly ==
  [][ LET old == Data.giftTransactions
          new == Data'.giftTransactions
      IN Len(new) >= Len(old) /\ SubSeq(new, 1, Len(old)) = old
    ]_vars

\* C12: every step that changes the quantity of a (holder, gift) pair or
\* removes its inventory record appends, in the same write, a ledger entry
\* for that pair whose signed quantity equals the change of the quantity.
C12_ChangeIsRecorded ==
  [][ \A pair \in Pairs(Data) \cup Pairs(Data') :
        LET u == pair[1]
            g == pair[2]
            old == Data.giftTransactions
            new == Data'.giftTransactions
        IN (\/ Qty(Data', u, g) # Qty(Data, u, g)
            \/ HasRecord(Data, u, g) /\ ~HasRecord(Data', u, g))
           => \E i \in (Len(old) + 1)..Len(new) :
                /\ new[i].userId = u
                /\ new[i].giftId = g
                /\ new[i].quantity = Qty(Data', u, g) - Qty(Data, u, g)
    ]_vars

\* The step is the end of the process while some handler was suspended in
\* writeData.
ExitDuringSave == inflight # << >> /\ inflight' = << >> /\ resp'.call.op = "none"

\* C13: writeData replaces the persisted dataset atomically: when the
\* process ends at any point during a save, the data file holds a complete
\* dataset (the one from before the save or the new one), never a partially
\* written one.
C13_SaveIsAtomic ==
  [][ ExitDuringSave => ~DATA_FILE'.torn ]_vars

\* C14: a read-only operation that runs while another operation's save is
\* under way never reads a partially written data file.
C14_ReadSeesCompleteFile ==
  [][ Answered("inventoryMy") => ~DATA_FILE.torn ]_vars

\* C15: an id is never reused: under any interleaving, an id present in a
\* collection (inventory records, requests, ledger entries) before and after
\* a step names the same object, and an object that appears in a step
\* carries an id that the collection's persisted counter had not yet passed.
C15_IdNeverReused ==
  [][ /\ \A i \in 1..Len(Data'.giftInventory) :
           LET inv == Data'.giftInventory[i]
               k == findIndexById(Data.giftInventory, inv.id)
           IN IF k = 0
              THEN inv.id >= Data.nextIds.giftInventory
              ELSE /\ Data.giftInventory[k].userId = inv.userId
                   /\ Data.giftInventory[k].giftId = inv.giftId
      /\ \A i \in 1..Len(Data'.giftRequests) :
           LET req == Data'.giftRequests[i]
               k == findIndexById(Data.giftRequests, req.id)
           IN IF k = 0
              THEN req.id >= Data.nextIds.giftRequests
              ELSE /\ Data.giftRequests[k].requesterId = req.requesterId
                   /\ Data.giftRequests[k].giftId = req.giftId
                   /\ Data.giftRequests[k].requestType = req.requestType
                   /\ Data.giftRequests[k].targetUserId = req.targetUserId
      /\ \A i \in 1..Len(Data'.giftTransactions) :
           LET trans == Data'.giftTransactions[i]
               k == findIndexById(Data.giftTransactions, trans.id)
           IN IF k = 0
              THEN trans.id >= Data.nextIds.giftTransactions
              ELSE Data.giftTransactions[k] = trans
    ]_vars

\* The submitted transfer names no holder the request could go to: the
\* target is missing, is not an active user, or is the requester.
BadTarget(d, c) ==
  \/ ~Truthy(c.targetUserId)
  \/ ~findActiveUser(d.users, c.targetUserId)
  \/ c.targetUserId = c.actor

\* The requester of the submitted transfer has no inventory record for the
\* gift, or holds less than the requested quantity.
LacksBalance(d, c) ==
  \/ ~HasRecord(d, c.actor, c.giftId)
  \/ Qty(d, c.actor, c.giftId) < c.quantity

\* The error of the submit handler for call c on dataset d.
SubmitErrorOf(d, c) ==
  submitError(d, c.actor, c.giftId, c.requestType, c.quantity, c.targetUserId)

\* C16: a submit whose requestedQuantity is zero or negative fails and
\* creates no request, and every request in the dataset has
\* requestedQuantity > 0.
C16_QuantityMustBePositive ==
  [][ /\ (/\ Answered("submit")
          /\ resp'.call.quantity # Null
          /\ resp'.call.quantity <= 0)
         => (resp'.status # 200 /\ Data'.giftRequests = Data.giftRequests)
      /\ \A i \in 1..Len(Data'.giftRequests) :
           Data'.giftRequests[i].requestedQuantity > 0
    ]_vars

\* C17: a submit of a transfer request whose target is missing, does not
\* exist, is inactive or is the requester fails and creates no request; the
\* failure is the unknown-target one (unless the requester also lacks the
\* balance, where C18 names the other failure).
C17_TransferTargetIsChecked ==
  [][ (/\ Answered("submit")
       /\ resp'.call.requestType = "transfer"
       /\ BadTarget(Data, resp'.call))
      => /\ resp'.status = 400
         /\ Data'.giftRequests = Data.giftRequests
         /\ \/ SubmitErrorOf(Data, resp'.call) = TargetUserNotFound
            \/ LacksBalance(Data, resp'.call)
    ]_vars

\* C18: a submit of a transfer request of a positive quantity by a
\* requester who has no inventory record for the gift, or holds less than
\* the requested quantity, fails whatever target is supplied, creates no
\* request and consumes no id; the failure is the insufficient-balance one
\* (unless the target is also bad, where C17 names the other failure).
C18_TransferBalanceIsChecked ==
  [][ (/\ Answered("submit")
       /\ resp'.call.requestType = "transfer"
       /\ resp'.call.quantity # Null
       /\ resp'.call.quantity > 0
       /\ LacksBalance(Data, resp'.call))
      => /\ resp'.status = 400
         /\ Data'.giftRequests = Data.giftRequests
         /\ Data'.nextIds = Data.nextIds
         /\ \/ SubmitErrorOf(Data, resp'.call) = InsufficientInventory
            \/ BadTarget(Data, resp'.call)
    ]_vars

\* C19: in every reachable state, every request has a non-null
\* targetUserId if and only if its requestType is transfer.
C19_TargetIffTransfer ==
  \A i \in 1..Len(Data.giftRequests) :
    (Data.giftRequests[i].targetUserId # Null)
      <=> (Data.giftRequests[i].requestType = "transfer")

\* C20: in every reachable state, every request has a non-null
\* approvedQuantity if and only if its status is approved.
C20_ApprovedQuantityIffApproved ==
  \A i \in 1..Len(Data.giftRequests) :
    (Data.giftRequests[i].approvedQuantity # Null)
      <=> (Data.giftRequests[i].status = "approved")

----------------------------------------------------------------------------
(* C21..C30 *)

\* C21: in a successful approve the quantity stored as approvedQuantity
\* (and added to the requester's balance by an increase) is the supplied
\* approvedQuantity when that is a positive number and the request's
\* requestedQuantity when it is absent, zero or negative; it is always > 0.
C21_FinalQuantityDefaults ==
  [][ (Answered("approve") /\ resp'.status = 200)
      => LET q == resp'.call.quantity
             old == RequestOf(Data, resp'.call.requestId)
             new == RequestOf(Data', resp'.call.requestId)
             expected == IF q # Null /\ q > 0 THEN q ELSE old.requestedQuantity
         IN /\ new.approvedQuantity = expected
            /\ expected > 0
            /\ old.requestType = "increase"
                 => Qty(Data', old.requesterId, old.giftId)
                      = Qty(Data, old.requesterId, old.giftId) + expected
    ]_vars

\* C22: reject of a pending request succeeds, sets the request's status to
\* rejected and records the rejection reason, the deciding manager and the
\* decision time; the request's other fields, every other request, every
\* inventory record and the ledger are unchanged.
C22_RejectFrame ==
  [][ (/\ Answered("reject")
       /\ HasRequest(Data, resp'.call.requestId)
       /\ RequestOf(Data, resp'.call.requestId).status = "pending")
      => LET c == resp'.call
             r == findRequestIndex(Data.giftRequests, c.requestId)
         IN /\ resp'.status = 200
            /\ Data'.giftRequests =
                 [Data.giftRequests EXCEPT ![r] =
                    [@ EXCEPT !.status = "rejected",
                              !.rejectionReason = c.reason,
                              !.approverId = c.actor,
                              !.approvedAt = Now]]
            /\ Data'.giftRequests[r].approvedAt # Null
            /\ Data'.giftRequests[r].rejectionReason # NullStr
            /\ Data'.giftInventory = Data.giftInventory
            /\ Data'.giftTransactions = Data.giftTransactions
    ]_vars

\* C22 witness: a reject of a pending request has been answered with
\* success and the request is persisted as rejected with its reason.
C22_Witness ==
  /\ resp.call.op = "reject"
  /\ resp.status = 200
  /\ HasRequest(Data, resp.call.requestId)
  /\ RequestOf(Data, resp.call.requestId).status = "rejected"
  /\ RequestOf(Data, resp.call.requestId).rejectionReason = resp.call.reason

\* C23: a send of n by a holder succeeds exactly when the holder has an
\* inventory record for the gift with quantity >= n.  On success the
\* quantity decreases by exactly n, exactly one ledger entry is appended, of
\* kind send with signed quantity -n for the pair, and nothing else changes;
\* on failure the dataset is unchanged (no record is created).
C23_SendDebits ==
  [][ Answered("send")
      => LET c == resp'.call
             u == c.actor
             g == c.giftId
             n == c.quantity
             old == Data.giftTransactions
             new == Data'.giftTransactions
         IN IF HasRecord(Data, u, g) /\ Qty(Data, u, g) >= n
            THEN /\ resp'.status = 200
                 /\ HasRecord(Data', u, g)
                 /\ Qty(Data', u, g) = Qty(Data, u, g) - n
                 /\ OtherRecords(Data', u, g) = OtherRecords(Data, u, g)
                 /\ Len(Data'.giftInventory) = Len(Data.giftInventory)
                 /\ Len(new) = Len(old) + 1
                 /\ SubSeq(new, 1, Len(old)) = old
                 /\ new[Len(new)].userId = u /\ new[Len(new)].giftId = g
                 /\ new[Len(new)].transactionType = "send"
                 /\ new[Len(new)].quantity = -n
                 /\ Data'.giftRequests = Data.giftRequests
            ELSE /\ resp'.status = 400
                 /\ Data' = Data
    ]_vars

\* C23 witness: a send of a positive quantity has succeeded: the ledger
\* ends with its send entry; and the holder's balance is now too low for
\* the same send to succeed again.
C23_Witness ==
  /\ resp.call.op = "send"
  /\ resp.status = 200
  /\ resp.call.quantity > 0
  /\ Len(Data.giftTransactions) > 0
  /\ LET last == Data.giftTransactions[Len(Data.giftTransactions)]
     IN /\ last.transactionType = "send"
        /\ last.userId = resp.call.actor
        /\ last.quantity = -resp.call.quantity
  /\ Qty(Data, resp.call.actor, resp.call.giftId) < resp.call.quantity

\* C24: a send with a zero or negative quantity fails and leaves the
\* dataset unchanged: no balance changes and no ledger entry is appended.
C24_NonPositiveSendFails ==
  [][ (Answered("send") /\ resp'.call.quantity <= 0)
      => (resp'.status # 200 /\ Data' = Data)
    ]_vars

\* The number of inventory records of the pair (userId, giftId) in d.
RecordCount(d, userId, giftId) ==
  Cardinality({i \in 1..Len(d.giftInventory) :
                 d.giftInventory[i].userId = userId /\ d.giftInventory[i].giftId = giftId})

\* C25: a manual adjust of a pair to q succeeds, leaves the pair with one
\* inventory record of quantity exactly q (created when there was none) and
\* appends exactly one ledger entry, of kind adjust, whose signed quantity
\* is q minus the prior quantity (0 without record), also when that is 0;
\* the other pairs' records and the requests are unchanged.
C25_AdjustSetsQuantity ==
  [][ Answered("adjust")
      => LET c == resp'.call
             u == c.userId
             g == c.giftId
             q == c.quantity
             old == Data.giftTransactions
             new == Data'.giftTransactions
         IN /\ resp'.status = 200
            /\ RecordCount(Data', u, g) = 1
            /\ Qty(Data', u, g) = q
            /\ OtherRecords(Data', u, g) = OtherRecords(Data, u, g)
            /\ Len(new) = Len(old) + 1
            /\ SubSeq(new, 1, Len(old)) = old
            /\ new[Len(new)].userId = u /\ new[Len(new)].giftId = g
            /\ new[Len(new)].transactionType = "adjust"
            /\ new[Len(new)].quantity = q - Qty(Data, u, g)
            /\ Data'.giftRequests = Data.giftRequests
    ]_vars

\* C25 witness: a manual adjust has been answered for a pair that had no
\* inventory record: the record is freshly created with the quantity set,
\* and the ledger ends with the adjust entry.
C25_Witness ==
  /\ resp.call.op = "adjust"
  /\ resp.status = 200
  /\ resp.call.quantity > 0
  /\ LET i == findInvIndex(Data.giftInventory, resp.call.userId, resp.call.giftId)
         txs == Data.giftTransactions
     IN /\ i # -1
        /\ Data.giftInventory[i].id >= getInitialData.nextIds.giftInventory
        /\ Data.giftInventory[i].quantity = resp.call.quantity
        /\ Len(txs) > 0
        /\ txs[Len(txs)].transactionType = "adjust"
        /\ txs[Len(txs)].quantity = resp.call.quantity

\* The inventory records of d, as a set.
Records(d) == {d.giftInventory[i] : i \in 1..Len(d.giftInventory)}

\* C26: remove-record of a pair that has an inventory record with quantity
\* q succeeds, removes that record and no other, appends exactly one ledger
\* entry, of kind delete with signed quantity -q for the pair, and answers
\* with the removed record; for a pair without record it fails with
\* not-found and the dataset is unchanged.
C26_RemoveRecord ==
  [][ Answered("remove")
      => LET c == resp'.call
             u == c.userId
             g == c.giftId
             old == Data.giftTransactions
             new == Data'.giftTransactions
         IN IF HasRecord(Data, u, g)
            THEN /\ resp'.status = 200
                 /\ ~HasRecord(Data', u, g)
                 /\ Len(Data'.giftInventory) = Len(Data.giftInventory) - 1
                 /\ Records(Data') = Records(Data) \ {deletedInventory(Data, u, g)}
                 /\ deletedInventory(Data, u, g).userId = u
                 /\ deletedInventory(Data, u, g).giftId = g
                 /\ deletedInventory(Data, u, g).quantity = Qty(Data, u, g)
                 /\ Len(new) = Len(old) + 1
                 /\ SubSeq(new, 1, Len(old)) = old
                 /\ new[Len(new)].userId = u /\ new[Len(new)].giftId = g
                 /\ new[Len(new)].transactionType = "delete"
                 /\ new[Len(new)].quantity = -Qty(Data, u, g)
                 /\ Data'.giftRequests = Data.giftRequests
            ELSE /\ resp'.status = 404
                 /\ Data' = Data
    ]_vars

\* C26 witness: a remove-record has succeeded for a pair that held a
\* positive quantity: the pair has no record and the ledger ends with the
\* delete entry of the negated quantity.
C26_Witness ==
  /\ resp.call.op = "remove"
  /\ resp.status = 200
  /\ ~HasRecord(Data, resp.call.userId, resp.call.giftId)
  /\ Len(Data.giftTransactions) > 0
  /\ LET last == Data.giftTransactions[Len(Data.giftTransactions)]
     IN /\ last.transactionType = "delete"
        /\ last.userId = resp.call.userId
        /\ last.giftId = resp.call.giftId
        /\ last.quantity < 0

\* The elements of sequence s, as a set.
Range(s) == {s[i] : i \in 1..Len(s)}

\* C27: a delete of an existing gift g succeeds; afterwards the gift is
\* absent and no inventory record and no request references g; the reported
\* removedInventoryCount and removedRequestsCount are the numbers of
\* inventory records and of requests that referenced g before the delete;
\* the records and requests of other gifts, and the other gifts, are
\* unchanged.
C27_DeleteGiftCascades ==
  [][ (Answered("deleteGift") /\ findIndexById(Data.gifts, resp'.call.giftId) # 0)
      => LET g == resp'.call.giftId
             invOfG == {i \in 1..Len(Data.giftInventory) : Data.giftInventory[i].giftId = g}
             reqOfG == {i \in 1..Len(Data.giftRequests) : Data.giftRequests[i].giftId = g}
         IN /\ resp'.status = 200
            /\ findIndexById(Data'.gifts, g) = 0
            /\ \A i \in 1..Len(Data'.giftInventory) : Data'.giftInventory[i].giftId # g
            /\ \A i \in 1..Len(Data'.giftRequests) : Data'.giftRequests[i].giftId # g
            /\ removedInventoryCount(Data, g) = Cardinality(invOfG)
            /\ removedRequestsCount(Data, g) = Cardinality(reqOfG)
            /\ Len(Data'.giftInventory) = Len(Data.giftInventory) - Cardinality(invOfG)
            /\ Len(Data'.giftRequests) = Len(Data.giftRequests) - Cardinality(reqOfG)
            /\ Range(Data'.giftInventory)
                 = {inv \in Range(Data.giftInventory) : inv.giftId # g}
            /\ Range(Data'.giftRequests)
                 = {req \in Range(Data.giftRequests) : req.giftId # g}
            /\ Range(Data'.gifts) = {gift \in Range(Data.gifts) : gift.id # g}
    ]_vars

\* C27 witness: gift 1 of the seed, which two inventory records and one
\* request reference, has been deleted by the first call served.
C27_Witness ==
  /\ resp.call.op = "deleteGift"
  /\ resp.status = 200
  /\ resp.call.giftId = 1
  /\ served = 1
  /\ removedInventoryCount(getInitialData, 1) = 2
  /\ removedRequestsCount(getInitialData, 1) = 1
  /\ Len(Data.giftInventory) = Len(getInitialData.giftInventory) - 2
  /\ Len(Data.giftRequests) = Len(getInitialData.giftRequests) - 1

\* C28: a delete of an existing user h other than the caller succeeds;
\* afterwards the user is absent and the dataset holds no inventory record
\* of h, no request submitted by h and no ledger entry of h; the records,
\* requests and ledger entries of the other users, and the other users, are
\* unchanged.
C28_DeleteUserCascades ==
  [][ (/\ Answered("deleteUser")
       /\ resp'.call.userId # resp'.call.actor
       /\ findIndexById(Data.users, resp'.call.userId) # 0)
      => LET h == resp'.call.userId
             keptInv == {inv \in Range(Data.giftInventory) : inv.userId # h}
             keptReq == {req \in Range(Data.giftRequests) : req.requesterId # h}
             keptTrans == {trans \in Range(Data.giftTransactions) : trans.userId # h}
         IN /\ resp'.status = 200
            /\ findIndexById(Data'.users, h) = 0
            /\ Range(Data'.users) = {u \in Range(Data.users) : u.id # h}
            /\ \A i \in 1..Len(Data'.giftInventory) : Data'.giftInventory[i].userId # h
            /\ \A i \in 1..Len(Data'.giftRequests) : Data'.giftRequests[i].requesterId # h
            /\ \A i \in 1..Len(Data'.giftTransactions) : Data'.giftTransactions[i].userId # h
            /\ Range(Data'.giftInventory) = keptInv
            /\ Range(Data'.giftRequests) = keptReq
            /\ Range(Data'.giftTransactions) = keptTrans
            /\ Len(Data'.giftInventory) = Cardinality(keptInv)
            /\ Len(Data'.giftRequests) = Cardinality(keptReq)
            /\ Len(Data'.giftTransactions) = Cardinality(keptTrans)
    ]_vars

\* C28 witness: a user has been deleted after a ledger entry of that user
\* had been written: the ledger is empty although its id counter has moved,
\* and no inventory record of the user is left.
C28_Witness ==
  /\ resp.call.op = "deleteUser"
  /\ resp.status = 200
  /\ findIndexById(Data.users, resp.call.userId) = 0
  /\ Data.nextIds.giftTransactions > getInitialData.nextIds.giftTransactions
  /\ Len(Data.giftTransactions) = 0
  /\ \A i \in 1..Len(Data.giftInventory) : Data.giftInventory[i].userId # resp.call.userId

UserExists(d, id) == findIndexById(d.users, id) # 0
GiftExists(d, id) == findIndexById(d.gifts, id) # 0

\* C29: in every reachable state every inventory record's userId and
\* giftId, and every request's requesterId, giftId and (for a transfer
\* request, when non-null) targetUserId, is the id of a user or gift present
\* in the dataset.
C29_ReferentialIntegrity ==
  /\ \A i \in 1..Len(Data.giftInventory) :
       /\ UserExists(Data, Data.giftInventory[i].userId)
       /\ GiftExists(Data, Data.giftInventory[i].giftId)
  /\ \A i \in 1..Len(Data.giftRequests) :
       /\ UserExists(Data, Data.giftRequests[i].requesterId)
       /\ GiftExists(Data, Data.giftRequests[i].giftId)
       /\ (/\ Data.giftRequests[i].requestType = "transfer"
           /\ Data.giftRequests[i].targetUserId # Null)
            => UserExists(Data, Data.giftRequests[i].targetUserId)

\* C30: in every reachable state there is at most one inventory record for
\* each (userId, giftId) pair.
C30_OneRecordPerPair ==
  \A i, j \in 1..Len(Data.giftInventory) :
    (/\ Data.giftInventory[i].userId = Data.giftInventory[j].userId
     /\ Data.giftInventory[i].giftId = Data.giftInventory[j].giftId)
    => i = j

\* C30 witness: a record has been pushed since the seed by an approve (the
\* pair had lost its record to a remove-record) and every pair still has a
\* single record.
C30_Witness ==
  /\ resp.call.op = "approve"
  /\ resp.status = 200
  /\ \E i \in 1..Len(Data.giftInventory) :
       Data.giftInventory[i].id >= getInitialData.nextIds.giftInventory
  /\ \A pair \in Pairs(Data) : RecordCount(Data, pair[1], pair[2]) = 1

----------------------------------------------------------------------------
(* Claims on errors, persistence failures and uniqueness *)

\* The answer of approve and of reject to a request they do not decide:
\* one branch, `!request || request.status !== 'pending'`, with one status
\* and one message for both causes.
RequestMissingOrHandled == "RequestMissingOrHandled"
decisionError(d, requestId) ==
  IF isPendingRequest(d, requestId) THEN NoError ELSE RequestMissingOrHandled

\* A request id that resolves to no request of d.
MissingRequestId(d) == CHOOSE id \in RequestIds : ~HasRequest(d, id)

\* C31: approve and reject report two distinguishable errors: the answer to
\* a call naming an existing, already decided request differs (in status or
\* in message) from the answer the same call gets for an id that names no
\* request.
C31_DecidedIsNotNotFound ==
  [][(/\ Answered("approve") \/ Answered("reject")
      /\ HasRequest(Data, resp'.call.requestId)
      /\ Decided(RequestOf(Data, resp'.call.requestId).status))
     => LET missing == [resp'.call EXCEPT !.requestId = MissingRequestId(Data)]
        IN <<resp'.status, decisionError(Data, resp'.call.requestId)>>
             # <<Handle(Data, missing).status, decisionError(Data, missing.requestId)>>]_vars

\* C32: a mutating operation whose save fails reports an error and has no
\* partial effect: with no other save under way, the dataset later
\* operations read is the dataset that was persisted when the save failed.
C32_FailedSaveHasNoEffect ==
  [][\A p \in DOMAIN inflight :
       (/\ DOMAIN inflight = {p}
        /\ ~inflight[p].fd
        /\ inflight' = << >>
        /\ resp' = [call |-> inflight[p].call, status |-> 500])
       => readData(DATA_FILE') = readData(DATA_FILE)]_vars

\* C33: when no data file exists, the first readData persists the seed
\* dataset and returns it; every later readData (with no write in between)
\* returns the persisted dataset and leaves the file as it is, rather than
\* creating a new seed.  Observed on the route that only reads.
C33_SeedOnFirstReadOnly ==
  [][Answered("inventoryMy")
     => /\ resp'.status = 200
        /\ IF DATA_FILE.exists
           THEN /\ readData(DATA_FILE) = DATA_FILE.content
                /\ DATA_FILE' = DATA_FILE
           ELSE /\ readData(DATA_FILE) = getInitialData
                /\ DATA_FILE' = writeData(getInitialData)]_vars

\* C33 witness: a read has been answered from a persisted dataset that is
\* no longer the seed (a gift was created or updated before the read).
C33_Witness ==
  /\ resp.call.op = "inventoryMy"
  /\ resp.status = 200
  /\ DATA_FILE.exists
  /\ DATA_FILE.content # getInitialData

UniqueGiftCodes(d) ==
  \A i, j \in 1..Len(d.gifts) : d.gifts[i].giftCode = d.gifts[j].giftCode => i = j

\* The call is a create-gift or an update-gift whose code is the code of
\* another gift of d.
DuplicatesGiftCode(d, c) ==
  \/ c.op = "createGift" /\ giftCodeTaken(d.gifts, c.giftCode, Null)
  \/ c.op = "updateGift" /\ giftCodeTaken(d.gifts, c.giftCode, c.giftId)

\* C34: no two gifts have the same gift code, before and after every
\* create-gift and update-gift; a create or update that would duplicate
\* another gift's code fails and leaves the dataset unchanged.
C34_GiftCodesUnique ==
  [][/\ UniqueGiftCodes(Data)
     /\ UniqueGiftCodes(Data')
     /\ (/\ served' = served + 1
         /\ DuplicatesGiftCode(Data, resp'.call))
        => (resp'.status # 200 /\ Data' = Data)]_vars

\* C34 witness: a gift has been created since the seed, and a create or
\* update that names the code of another gift has been refused.
C34_Witness ==
  /\ Len(Data.gifts) > Len(getInitialData.gifts)
  /\ DuplicatesGiftCode(Data, resp.call)
  /\ resp.status = 400
  /\ UniqueGiftCodes(Data)

\* C35: once a dataset has been persisted, no operation replaces it with
\* the seed dataset: a readData that finds the data file (complete, or
\* being written by another operation) leaves the file as it is.
C35_NoReseedOfExistingFile ==
  [][(/\ served' = served + 1
      /\ DATA_FILE.exists
      /\ DATA_FILE.content # getInitialData)
     => DATA_FILE' = DATA_FILE]_vars

UniqueUsernames(d) ==
  \A i, j \in 1..Len(d.users) : d.users[i].username = d.users[j].username => i = j

UniqueEmployeeIds(d) ==
  \A i, j \in 1..Len(d.users) : d.users[i].employeeId = d.users[j].employeeId => i = j

\* The call is a create-user whose username or employee id is that of a
\* user of d, or an update-user that sets the username or the employee id
\* of an existing user to that of another user of d.
DuplicatesUser(d, c) ==
  \/ /\ c.op = "createUser"
     /\ \/ usernameTaken(d.users, c.username, Null)
        \/ employeeIdTaken(d.users, c.employeeId, Null)
  \/ /\ c.op = "updateUser"
     /\ \/ TruthyStr(c.username) /\ usernameTaken(d.users, c.username, c.userId)
        \/ TruthyStr(c.employeeId) /\ employeeIdTaken(d.users, c.employeeId, c.userId)

\* C36: no two users share a username and no two users share an employee
\* id, before and after every create-user and update-user; a create or
\* update that would duplicate another user's username or employee id
\* fails and leaves the dataset unchanged.
C36_UserKeysUnique ==
  [][/\ UniqueUsernames(Data) /\ UniqueEmployeeIds(Data)
     /\ UniqueUsernames(Data') /\ UniqueEmployeeIds(Data')
     /\ (/\ served' = served + 1
         /\ DuplicatesUser(Data, resp'.call))
        => (resp'.status # 200 /\ Data' = Data)]_vars

\* C36 witness: a user has been created since the seed, and an update that
\* names the username or the employee id of another user has been refused.
C36_Witness ==
  /\ Len(Data.users) > Len(getInitialData.users)
  /\ TruthyStr(Data.users[Len(Data.users)].username)
  /\ TruthyStr(Data.users[Len(Data.users)].employeeId)
  /\ resp.call.op = "updateUser"
  /\ DuplicatesUser(Data, resp.call)
  /\ resp.status = 400
  /\ UniqueUsernames(Data) /\ UniqueEmployeeIds(Data)

\* The user record with the given id.
UserOf(d, id) == d.users[findIndexById(d.users, id)]

\* C37: a manager cannot remove or deactivate their own account through
\* delete-user or set-status: either call with the acting user's own id is
\* answered 400 and leaves the dataset unchanged, and after every
\* delete-user and set-status call the acting user still exists with the
\* same status.
C37_NoSelfRemoval ==
  [][(Answered("deleteUser") \/ Answered("setStatus"))
     => /\ resp'.call.userId = resp'.call.actor
           => (resp'.status = 400 /\ Data' = Data)
        /\ UserExists(Data, resp'.call.actor)
           => /\ UserExists(Data', resp'.call.actor)
              /\ UserOf(Data', resp'.call.actor).status
                   = UserOf(Data, resp'.call.actor).status]_vars

\* C37 witness: the manager has deleted another user, and the manager's
\* set-status on their own id has been refused; the manager is still
\* there, active.
C37_Witness ==
  /\ resp.call.op = "setStatus"
  /\ resp.call.userId = resp.call.actor
  /\ resp.status = 400
  /\ Len(Data.users) < Len(getInitialData.users)
  /\ UserExists(Data, resp.call.actor)
  /\ UserOf(Data, resp.call.actor).status = "active"

====
